---- MODULE Spec2Model ----
(***************************************************************************)
(* The download/export pipeline (DownloadController) and the progress      *)
(* upsert (ProgressController) of the e-learning platform.                 *)
(*                                                                         *)
(* Strings whose characters matter (file names, URL ids, paths) are        *)
(* sequences of one-character strings, so that concatenation, splitting at *)
(* '/', path normalisation and the sweep's regular expression are computed *)
(* character by character.                                                 *)
(*                                                                         *)
(* Specifications:                                                         *)
(*   ServeSpec      GET /download/:id            (getArchivedFile)         *)
(*   Spec           POST /download/pdf/{individual,single}                 *)
(*   CacheSpec      the cache folder: archive writes, the expiry sweep     *)
(*   FairCacheSpec  CacheSpec with the timer firing and time passing       *)
(*   ProgressSpec   PUT /progress                (updateProgress)          *)
(***************************************************************************)
EXTENDS Integers, Sequences, FiniteSets, TLC

VARIABLES
    response,   \* ServeSpec: the GET /download/:id request and what was done with it
    pc,         \* Spec: "received" | "done"
    req,        \* Spec: the request being handled (kind, data, user)
    result,     \* Spec: what the handler did with it
    cache,      \* CacheSpec: the cache folder, file name -> age of its ctime (ms)
    stream,     \* CacheSpec: the write stream of the download request in flight
    started,    \* CacheSpec: download requests that reached createWriteStream
    sweepLog,   \* CacheSpec: who ran the last sweep, and a bit flipped by every sweep
    progress,   \* ProgressSpec: the Progress collection
    calls,      \* ProgressSpec: the updateProgress calls in flight
    nextId      \* ProgressSpec: next document _id

vars == <<response, pc, req, result, cache, stream, started, sweepLog,
          progress, calls, nextId>>

serveVars == <<response>>
requestVars == <<pc, req, result>>
cacheVars == <<cache, stream, started, sweepLog>>
progressVars == <<progress, calls, nextId>>

(***************************************************************************)
(* Bounds                                                                  *)
(***************************************************************************)
MaxIdLen == 7
MaxLectures == 2
MaxRequests == 2
MaxWrites == 1
MaxCalls == 2

(***************************************************************************)
(* Strings                                                                 *)
(***************************************************************************)
DownloadPrefix == <<"d", "o", "w", "n", "l", "o", "a", "d", "_">>
ZipSuffix == <<".", "z", "i", "p">>

\* 'download_' + id + '.zip'
ArchiveFileName(id) == DownloadPrefix \o id \o ZipSuffix

(***************************************************************************)
(* node's path module (posix), on absolute paths                           *)
(***************************************************************************)
\* The segments of a string between its '/' characters (empty ones included).
RECURSIVE SplitFrom(_, _, _)
SplitFrom(s, i, cur) ==
    IF i > Len(s) THEN <<cur>>
    ELSE IF s[i] = "/" THEN <<cur>> \o SplitFrom(s, i + 1, <<>>)
    ELSE SplitFrom(s, i + 1, Append(cur, s[i]))

Split(s) == SplitFrom(s, 1, <<>>)

\* path.normalize of an absolute path: '' and '.' segments are dropped, '..'
\* removes the segment before it and is dropped at the root.
RECURSIVE NormalizeFrom(_, _, _)
NormalizeFrom(segs, i, out) ==
    IF i > Len(segs) THEN out
    ELSE IF segs[i] = <<>> \/ segs[i] = <<".">> THEN NormalizeFrom(segs, i + 1, out)
    ELSE IF segs[i] = <<".", ".">>
         THEN NormalizeFrom(segs, i + 1,
                            IF out = <<>> THEN out ELSE SubSeq(out, 1, Len(out) - 1))
    ELSE NormalizeFrom(segs, i + 1, Append(out, segs[i]))

\* A normalised absolute path is the sequence of its segments.
Normalize(s) == NormalizeFrom(Split(s), 1, <<>>)

\* path.resolve of an absolute path: normalised, no trailing slash.
PathResolve(s) == Normalize(s)

\* The string of a normalised absolute path.
RECURSIVE PathString(_)
PathString(p) ==
    IF p = <<>> THEN <<>> ELSE <<"/">> \o p[1] \o PathString(SubSeq(p, 2, Len(p)))

\* path.join(dir, name): normalize(dir + '/' + name)
PathJoin(dir, name) == Normalize(PathString(dir) \o <<"/">> \o name)

\* path.dirname of a normalised absolute path with at least one segment.
PathDirname(p) == IF p = <<>> THEN <<>> ELSE SubSeq(p, 1, Len(p) - 1)

(***************************************************************************)
(* config                                                                  *)
(***************************************************************************)
\* appRoot + '/tmp/', with the application installed at /app
tmpFileCacheFolder == <<"/", "a", "p", "p", "/", "t", "m", "p", "/">>

maxFileSize == 51200
maxZipSize == 204800

(***************************************************************************)
(* GET /download/:id                                                       *)
(***************************************************************************)
\* The :id route parameter after URL decoding: any characters, '/' and '.' included.
IdChars == {"a", ".", "/"}
Ids == UNION {[1..n -> IdChars] : n \in 0..MaxIdLen}

\* Files on the disk of the server, inside and outside the cache folder.
DiskFiles ==
    { <<<<"a", "p", "p">>, <<"t", "m", "p">>, ArchiveFileName(<<"a">>)>>,
      <<<<"a", "p", "p">>, <<"t", "m", "p">>, ArchiveFileName(<<"a", "a">>)>>,
      <<<<"a", "p", "p">>, <<"t", "m", "p">>, <<"a", ".", "z", "i", "p">>>>,
      <<<<"a", "p", "p">>, ZipSuffix>>,
      <<<<"a", "p", "p">>, <<"a", ".", "z", "i", "p">>>>,
      <<<<"a", "p", "p">>, <<"t", "m", "p">>, <<"a">>, ZipSuffix>>,
      <<ZipSuffix>> }

existsSync(p) == p \in DiskFiles

\* A request that arrived and is not handled yet.
PendingResponse(id) == [id |-> id, status |-> "pending", filePath |-> <<>>,
                        existsChecked |-> FALSE, sent |-> {}]

\* A prefix test in place of the parent-directory test.
PathForbiddenPrefix(filePath, folder) ==
    ~(Len(filePath) > Len(folder) /\ SubSeq(filePath, 1, Len(folder)) = folder)

\* The path check of getArchivedFile (line 133).
PathForbidden(filePath, folder) == PathDirname(filePath) # folder

getArchivedFile(id) ==
    LET folder == PathResolve(tmpFileCacheFolder)
        filePath == PathJoin(folder, ArchiveFileName(id))
    IN  /\ response = PendingResponse(id)
        /\ response' =
              IF PathForbidden(filePath, folder)
              THEN [id |-> id, status |-> "ForbiddenError", filePath |-> filePath,
                    existsChecked |-> FALSE, sent |-> {}]
              ELSE IF ~existsSync(filePath)
              THEN [id |-> id, status |-> "NotFoundError", filePath |-> filePath,
                    existsChecked |-> TRUE, sent |-> {}]
              ELSE [id |-> id, status |-> "download", filePath |-> filePath,
                    existsChecked |-> TRUE, sent |-> {filePath}]
        /\ UNCHANGED <<requestVars, cacheVars, progressVars>>

(***************************************************************************)
(* createFileHash                                                          *)
(***************************************************************************)
HashBytes == 16
HexDigits == <<"0", "1", "2", "3", "4", "5", "6", "7", "8", "9",
               "a", "b", "c", "d", "e", "f">>

\* Buffer.toString('hex'): two lower-case digits a byte
ByteToHex(b) == <<HexDigits[(b \div 16) + 1], HexDigits[(b % 16) + 1]>>

RECURSIVE ToHex(_)
ToHex(bytes) == IF bytes = <<>> THEN <<>> ELSE ByteToHex(bytes[1]) \o ToHex(Tail(bytes))

\* crypto.randomBytes(n): two of its outcomes
ByteSamples == {10, 255}
randomBytes(n) == { [i \in 1..n |-> b] : b \in ByteSamples }

createFileHash == { ToHex(bytes) : bytes \in randomBytes(HashBytes) }

(***************************************************************************)
(* The database: courses, lectures, units, files                           *)
(***************************************************************************)
\* Users: _id and role. uRoot is a platform admin, uOwner the course's
\* courseAdmin, uStudent and uTeacher members of the course, uOther none of these.
Users ==
    { [_id |-> "uRoot", role |-> "admin"],
      [_id |-> "uOwner", role |-> "teacher"],
      [_id |-> "uStudent", role |-> "student"],
      [_id |-> "uTeacher", role |-> "teacher"],
      [_id |-> "uOther", role |-> "student"] }

Courses ==
    [ c1 |-> [name |-> "c1", courseAdmin |-> "uOwner",
              students |-> <<"uStudent">>, teachers |-> <<"uTeacher">>] ]

CourseNames == {"c1", "cMissing"}

Lectures == [ l1 |-> [name |-> "l1"] ]

LectureIds == {"l1", "lMissing"}

\* The File collection: stored size in bytes. Four files of exactly maxFileSize
\* KB, one of 1 KB and one a byte over maxFileSize KB.
Files ==
    [ f \in 101..106 |->
        [link |-> f,
         size |-> CASE f \in 101..104 -> maxFileSize * 1024
                    [] f = 105 -> 1024
                    [] OTHER -> maxFileSize * 1024 + 1] ]

\* The Unit collection: a file unit with its files in order, and a text unit.
Units ==
    [ unitFile |-> [t |-> "file", files |-> <<101, 102, 103, 104, 105, 106>>],
      unitText |-> [t |-> "free-text", files |-> <<>>] ]

UnitIds == {"unitFile", "unitText", "unitMissing"}

(***************************************************************************)
(* The request body (IDownload)                                            *)
(***************************************************************************)
\* An entry of unit.files as the client sends it: a number (a position in the
\* unit's file list) or the _id of a File document.
Index(i) == [t |-> "index", v |-> i]
ObjectId(f) == [t |-> "objectId", v |-> f]

IndexPrefix(n) == [i \in 1..n |-> Index(i - 1)]

FileSelections ==
    { <<>>, IndexPrefix(4), IndexPrefix(5), <<Index(5)>>,
      <<ObjectId(105)>>, <<ObjectId(106)>> }

\* unit.files is read for file units only.
UnitRequests ==
    { [unitId |-> "unitFile", files |-> fs] : fs \in FileSelections }
    \cup { [unitId |-> u, files |-> <<>>] : u \in {"unitText", "unitMissing"} }

LectureRequests ==
    { [lectureId |-> l, units |-> us] :
        l \in LectureIds, us \in {<<>>} \cup { <<u>> : u \in UnitRequests } }

Packages ==
    { [courseName |-> c, lectures |-> ls] :
        c \in CourseNames,
        ls \in UNION { [1..n -> LectureRequests] : n \in 0..MaxLectures } }

Kinds == {"individual", "single"}

Requests == { [kind |-> k, data |-> d, user |-> u] : k \in Kinds, d \in Packages, u \in Users }

(***************************************************************************)
(* POST /download/pdf/individual and /download/pdf/single                  *)
(***************************************************************************)
\* Array.prototype.indexOf(x) > -1
Contains(seq, x) == \E i \in 1..Len(seq) : seq[i] = x

RECURSIVE Flatten(_)
Flatten(ss) == IF ss = <<>> THEN <<>> ELSE ss[1] \o Flatten(Tail(ss))

\* The units of a request in the order the loops over lectures and units visit them.
PackUnits(pack) == Flatten([i \in 1..Len(pack.lectures) |-> pack.lectures[i].units])

\* (file.size / 1024) > config.maxFileSize, both sides times 1024 (sizes are
\* whole bytes, so the quotients and their sums are exact in the code's doubles)
TooLarge(size) == size > maxFileSize * 1024

\* The forEach over the files of a file unit (lines 96-103): position idx counts
\* when unit.files holds the number idx.
RECURSIVE CountFiles(_, _, _, _)
CountFiles(stored, selected, i, acc) ==
    IF i > Len(stored) THEN acc
    ELSE IF Contains(selected, Index(i - 1))
         THEN CountFiles(stored, selected, i + 1,
                [acc EXCEPT !.totalSize = @ + Files[stored[i]].size,
                            !.tooLargeFiles =
                                IF TooLarge(Files[stored[i]].size)
                                THEN Append(@, Files[stored[i]].link) ELSE @,
                            !.counted = Append(@, stored[i])])
         ELSE CountFiles(stored, selected, i + 1, acc)

\* Unit.findOne({_id}).orFail(new NotFoundError())
UnitFound(unitId) == unitId \in DOMAIN Units

\* The loop of calcPackage with a unit that is not found skipped instead of
\* failing the request.
RECURSIVE calcPackageFromSkipMissing(_, _, _)
calcPackageFromSkipMissing(units, i, acc) ==
    IF i > Len(units) THEN acc
    ELSE IF ~UnitFound(units[i].unitId)
         THEN calcPackageFromSkipMissing(units, i + 1, [acc EXCEPT !.unitsRead = @ + 1])
    ELSE LET localUnit == Units[units[i].unitId]
             read == [acc EXCEPT !.unitsRead = @ + 1]
         IN  calcPackageFromSkipMissing(units, i + 1,
                IF localUnit.t = "file"
                THEN CountFiles(localUnit.files, units[i].files, 1, read)
                ELSE read)

\* calcPackage (lines 82-108). totalSize is kept in bytes (the code's KB times
\* 1024); unitsRead counts the Unit lookups made; counted lists the stored files
\* whose sizes were added.
RECURSIVE calcPackageFrom(_, _, _)
calcPackageFrom(units, i, acc) ==
    IF i > Len(units) THEN acc
    ELSE IF ~UnitFound(units[i].unitId)
         THEN [acc EXCEPT !.error = "NotFoundError", !.unitsRead = @ + 1]
    ELSE LET localUnit == Units[units[i].unitId]
             read == [acc EXCEPT !.unitsRead = @ + 1]
         IN  calcPackageFrom(units, i + 1,
                IF localUnit.t = "file"
                THEN CountFiles(localUnit.files, units[i].files, 1, read)
                ELSE read)

calcPackage(pack) ==
    calcPackageFrom(PackUnits(pack), 1,
        [error |-> "none", totalSize |-> 0, tooLargeFiles |-> <<>>,
         unitsRead |-> 0, counted |-> <<>>])

\* The limits tested with >= in place of >.
SizeRejectedAtLimit(size) ==
    \/ size.totalSize >= maxZipSize * 1024
    \/ Len(size.tooLargeFiles) # 0
    \/ \E i \in 1..Len(size.counted) : Files[size.counted[i]].size >= maxFileSize * 1024

\* size.totalSize > config.maxZipSize || size.tooLargeFiles.length !== 0
SizeRejected(size) ==
    size.totalSize > maxZipSize * 1024 \/ Len(size.tooLargeFiles) # 0

\* The check without its last test (the course's teachers).
userCanExportCourseNoTeachers(course, user) ==
    \/ user.role = "admin"
    \/ user._id = course.courseAdmin
    \/ Contains(course.students, user._id)

\* userCanExportCourse (lines 442-460): TRUE, or FALSE where it throws ForbiddenError.
userCanExportCourse(course, user) ==
    \/ user.role = "admin"
    \/ user._id = course.courseAdmin
    \/ Contains(course.students, user._id)
    \/ Contains(course.teachers, user._id)

\* File.findById(fileId): a document only for the _id of a stored file; a number
\* is no _id, and the handler then fails on the missing document.
FileFound(fileId) == fileId.t = "objectId" /\ fileId.v \in DOMAIN Files

LectureFound(lectureId) == lectureId \in DOMAIN Lectures

Log(acc, op) == [acc EXCEPT !.ops = Append(@, op)]
Fail(acc, err) == [acc EXCEPT !.error = err]

\* The loop over unit.files of a file unit (lines 214-217, 374-378).
RECURSIVE ArchiveFiles(_, _, _)
ArchiveFiles(fileIds, i, acc) ==
    IF i > Len(fileIds) THEN acc
    ELSE LET looked == Log(acc, "File.findById")
         IN  IF ~FileFound(fileIds[i]) THEN Fail(looked, "TypeError")
             ELSE ArchiveFiles(fileIds, i + 1,
                    [Log(looked, "archive.file") EXCEPT
                        !.archive = Append(@, [kind |-> "file", ref |-> fileIds[i].v])])

\* createPdf (lines 427-436) and the append of its buffer: the renderer may fail.
RenderPdf(pdfOk, acc) ==
    LET rendered == Log(acc, "createPdf")
    IN  IF ~pdfOk THEN Fail(rendered, "Error")
        ELSE [Log(rendered, "archive.append") EXCEPT
                 !.archive = Append(@, [kind |-> "pdf", ref |-> 0])]

\* One unit of the build loop: a file unit's files go into the archive; any other
\* unit is rendered, to a PDF of its own (individual, lines 218-252) or into the
\* HTML of the single PDF (lines 379-399).
BuildUnit(kind, pdfOk, unit, acc) ==
    LET looked == Log(acc, "Unit.findOne")
    IN  IF ~UnitFound(unit.unitId) THEN Fail(looked, "NotFoundError")
        ELSE IF Units[unit.unitId].t = "file" THEN ArchiveFiles(unit.files, 1, looked)
        ELSE IF kind = "individual" THEN RenderPdf(pdfOk, looked)
        ELSE Log(looked, "toHtmlForSinglePDF")

RECURSIVE BuildUnits(_, _, _, _, _)
BuildUnits(kind, pdfOk, units, i, acc) ==
    IF i > Len(units) \/ acc.error # "none" THEN acc
    ELSE BuildUnits(kind, pdfOk, units, i + 1, BuildUnit(kind, pdfOk, units[i], acc))

\* The loop over the lectures (lines 202-256, 356-404). A lectureId that matches
\* no lecture makes localLecture null and localLecture.name throws.
RECURSIVE BuildLectures(_, _, _, _, _)
BuildLectures(kind, pdfOk, lectures, i, acc) ==
    IF i > Len(lectures) \/ acc.error # "none" THEN acc
    ELSE LET looked == Log(acc, "Lecture.findOne")
         IN  IF ~LectureFound(lectures[i].lectureId) THEN Fail(looked, "TypeError")
             ELSE BuildLectures(kind, pdfOk, lectures, i + 1,
                                BuildUnits(kind, pdfOk, lectures[i].units, 1, looked))

\* The single PDF appended after the loops (lines 405-410).
AppendSinglePdf(kind, pdfOk, acc) ==
    IF kind = "single" /\ acc.error = "none" THEN RenderPdf(pdfOk, acc) ELSE acc

\* output.on('close', () => resolve(hash)); archive.finalize()
Finalize(acc, hash) ==
    IF acc.error = "none"
    THEN [Log(acc, "archive.finalize") EXCEPT !.closed = TRUE, !.hash = hash]
    ELSE acc

NoSize == [reported |-> FALSE, totalSize |-> 0, tooLargeFiles |-> <<>>, counted |-> <<>>]

NoResult == [error |-> "none", ops |-> <<>>, size |-> NoSize, created |-> {},
             archive |-> <<>>, closed |-> FALSE, hash |-> <<>>]

RECURSIVE Repeat(_, _)
Repeat(op, n) == IF n = 0 THEN <<>> ELSE <<op>> \o Repeat(op, n - 1)

\* Everything a download handler does with a request (lines 170-262 and 283-416;
\* the two handlers share the checks and differ in the build), given the hash
\* createFileHash draws and whether the PDF renderer succeeds.
HandleDownload(kind, data, user, hash, pdfOk) ==
    IF Len(data.lectures) = 0 THEN Fail(NoResult, "BadRequestError")
    ELSE LET r1 == Log(NoResult, "Course.findOne")
    IN  IF data.courseName \notin DOMAIN Courses THEN Fail(r1, "NotFoundError")
        ELSE IF ~userCanExportCourse(Courses[data.courseName], user)
             THEN Fail(r1, "ForbiddenError")
        ELSE LET size == calcPackage(data)
                 r2 == [r1 EXCEPT !.ops = @ \o Repeat("Unit.findOne", size.unitsRead)]
             IN  IF size.error # "none" THEN Fail(r2, size.error)
                 ELSE LET r3 == [r2 EXCEPT !.size =
                                    [reported |-> TRUE, totalSize |-> size.totalSize,
                                     tooLargeFiles |-> size.tooLargeFiles,
                                     counted |-> size.counted]]
                      IN  IF SizeRejected(size) THEN Fail(r3, "BadRequestError")
                          ELSE LET r4 == [Log(Log(r3, "createFileHash"), "createWriteStream")
                                            EXCEPT !.created = {ArchiveFileName(hash)}]
                               IN  Finalize(
                                     AppendSinglePdf(kind, pdfOk,
                                        BuildLectures(kind, pdfOk, data.lectures, 1, r4)),
                                     hash)

postDownloadRequestPDFIndividual ==
    /\ pc = "received"
    /\ req.kind = "individual"
    /\ \E hash \in createFileHash, pdfOk \in BOOLEAN :
          result' = HandleDownload("individual", req.data, req.user, hash, pdfOk)
    /\ pc' = "done"
    /\ UNCHANGED <<req, serveVars, cacheVars, progressVars>>

postDownloadRequestPDFSingle ==
    /\ pc = "received"
    /\ req.kind = "single"
    /\ \E hash \in createFileHash, pdfOk \in BOOLEAN :
          result' = HandleDownload("single", req.data, req.user, hash, pdfOk)
    /\ pc' = "done"
    /\ UNCHANGED <<req, serveVars, cacheVars, progressVars>>

Init ==
    /\ pc = "received" /\ req \in Requests /\ result = NoResult
    /\ response = <<>>
    /\ cache = <<>> /\ stream = <<>> /\ started = 0 /\ sweepLog = <<>>
    /\ progress = {} /\ calls = <<>> /\ nextId = 0

Next == postDownloadRequestPDFIndividual \/ postDownloadRequestPDFSingle

Spec == Init /\ [][Next]_vars

(***************************************************************************)
(* Properties of the download requests                                     *)
(***************************************************************************)
WorkOps == {"createFileHash", "createWriteStream", "File.findById", "Lecture.findOne",
            "createPdf", "toHtmlForSinglePDF", "archive.file", "archive.append",
            "archive.finalize"}

Did(op) == \E i \in 1..Len(result.ops) : result.ops[i] = op

NoWorkDone ==
    /\ \A op \in WorkOps : ~Did(op)
    /\ result.created = {}
    /\ result.archive = <<>>
    /\ result.hash = <<>>
    /\ ~result.closed

\* The files calcPackage counted, by what is stored about them.
CountedOverFileLimit ==
    \E i \in 1..Len(result.size.counted) :
        Files[result.size.counted[i]].size > maxFileSize * 1024
CountedOverZipLimit == result.size.totalSize > maxZipSize * 1024

\* C2: in both handlers, when calcPackage reports a total over maxZipSize or a
\* selected file over maxFileSize the request fails with BadRequestError before
\* any work (no hash, no file in the cache folder, no PDF, nothing archived); a
\* total of exactly maxZipSize with files of exactly maxFileSize is accepted.
C2_SizeCheckBeforeWork ==
    (pc = "done" /\ result.size.reported) =>
        /\ (CountedOverZipLimit \/ CountedOverFileLimit) =>
              result.error = "BadRequestError" /\ NoWorkDone
        /\ (~CountedOverZipLimit /\ ~CountedOverFileLimit) =>
              /\ result.error # "BadRequestError"
              /\ Did("createFileHash") /\ result.created # {}

\* A request over the total limit with no single file over the file limit was
\* rejected.
C2_Witness ==
    /\ pc = "done" /\ result.size.reported
    /\ CountedOverZipLimit /\ ~CountedOverFileLimit
    /\ result.error = "BadRequestError"

\* A request of exactly maxZipSize made of files of exactly maxFileSize passed.
C2_WitnessAtLimit ==
    /\ pc = "done" /\ result.size.reported
    /\ result.size.totalSize = maxZipSize * 1024
    /\ \E i \in 1..Len(result.size.counted) :
          Files[result.size.counted[i]].size = maxFileSize * 1024
    /\ result.created # {}

CourseExists == req.data.courseName \in DOMAIN Courses

\* None of: admin, the course's courseAdmin, one of its students, one of its teachers.
Outsider ==
    LET course == Courses[req.data.courseName]
    IN  /\ req.user.role # "admin"
        /\ req.user._id # course.courseAdmin
        /\ \A i \in 1..Len(course.students) : course.students[i] # req.user._id
        /\ \A i \in 1..Len(course.teachers) : course.teachers[i] # req.user._id

ForbiddenBeforeCalc ==
    /\ result.error = "ForbiddenError"
    /\ ~Did("Unit.findOne")
    /\ ~result.size.reported
    /\ NoWorkDone

\* C5 as stated: every download request for an existing course by a user who is
\* none of admin, courseAdmin, student, teacher fails with ForbiddenError before
\* calcPackage; a user who is one of the four is never rejected by the check.
C5_OutsiderForbidden ==
    pc = "done" /\ CourseExists =>
        /\ Outsider => ForbiddenBeforeCalc
        /\ ~Outsider => result.error # "ForbiddenError"

\* C5 amended: the same for requests with a non-empty lectures list (an empty
\* list fails with BadRequestError before the course is looked up).
C5_OutsiderForbiddenNonEmpty ==
    pc = "done" /\ CourseExists =>
        /\ (Outsider /\ Len(req.data.lectures) > 0) => ForbiddenBeforeCalc
        /\ ~Outsider => result.error # "ForbiddenError"

\* An outsider asked for a unit that does not exist and was refused without a
\* unit being read.
C5_Witness ==
    /\ pc = "done" /\ CourseExists /\ Outsider
    /\ \E i \in 1..Len(PackUnits(req.data)) : PackUnits(req.data)[i].unitId \notin DOMAIN Units
    /\ ForbiddenBeforeCalc

SomeUnitMissing ==
    \E i \in 1..Len(req.data.lectures) :
        \E j \in 1..Len(req.data.lectures[i].units) :
            req.data.lectures[i].units[j].unitId \notin DOMAIN Units

NothingCreated == result.created = {} /\ ~Did("createWriteStream") /\ result.hash = <<>>

\* C6 as stated, its three cases taken in the order it lists them: an empty
\* lectures list gives BadRequestError before any database lookup, a courseName
\* matching no course gives NotFoundError, a unitId matching no unit gives
\* NotFoundError; in each case no archive file is created and no hash returned.
C6_InvalidInputRejected ==
    pc = "done" =>
        /\ Len(req.data.lectures) = 0 =>
              result.error = "BadRequestError" /\ result.ops = <<>> /\ NothingCreated
        /\ (Len(req.data.lectures) > 0 /\ ~CourseExists) =>
              result.error = "NotFoundError" /\ NothingCreated
        /\ (Len(req.data.lectures) > 0 /\ CourseExists /\ SomeUnitMissing) =>
              result.error = "NotFoundError" /\ NothingCreated

\* C6 amended: a unitId matching no unit gives NotFoundError when the user may
\* export the course; for any other user the request fails with ForbiddenError,
\* and in every one of these cases no archive file is created and no hash returned.
C6_InvalidInputRejectedInOrder ==
    pc = "done" =>
        /\ Len(req.data.lectures) = 0 =>
              result.error = "BadRequestError" /\ result.ops = <<>> /\ NothingCreated
        /\ (Len(req.data.lectures) > 0 /\ ~CourseExists) =>
              result.error = "NotFoundError" /\ NothingCreated
        /\ (Len(req.data.lectures) > 0 /\ CourseExists /\ SomeUnitMissing) =>
              /\ result.error = IF Outsider THEN "ForbiddenError" ELSE "NotFoundError"
              /\ NothingCreated

\* A member asked for two lectures, the second with a unit that does not exist.
C6_Witness ==
    /\ pc = "done" /\ CourseExists /\ ~Outsider
    /\ Len(req.data.lectures) = 2
    /\ Len(req.data.lectures[1].units) = 1
    /\ req.data.lectures[1].units[1].unitId \in DOMAIN Units
    /\ SomeUnitMissing
    /\ result.error = "NotFoundError" /\ NothingCreated

RECURSIVE ArchivedFiles(_)
ArchivedFiles(entries) ==
    IF entries = <<>> THEN <<>>
    ELSE (IF entries[1].kind = "file" THEN <<entries[1].ref>> ELSE <<>>)
         \o ArchivedFiles(Tail(entries))

RECURSIVE SumSizes(_)
SumSizes(fileIds) ==
    IF fileIds = <<>> THEN 0 ELSE Files[fileIds[1]].size + SumSizes(Tail(fileIds))

SeqSet(seq) == { seq[i] : i \in 1..Len(seq) }

\* C7: the files calcPackage counts are the files the build adds to the ZIP, so
\* the attachments of any archive produced sum to at most maxZipSize and none
\* exceeds maxFileSize.
C7_ArchiveWithinLimits ==
    (pc = "done" /\ result.closed) =>
        LET archived == ArchivedFiles(result.archive)
        IN  /\ SeqSet(archived) = SeqSet(result.size.counted)
            /\ SumSizes(archived) <= maxZipSize * 1024
            /\ \A i \in 1..Len(archived) : Files[archived[i]].size <= maxFileSize * 1024

(***************************************************************************)
(* The cache folder and its expiry sweep                                   *)
(***************************************************************************)
\* \w of a JavaScript regular expression: [A-Za-z0-9_]
WordChars ==
    {"a", "b", "c", "d", "e", "f", "g", "h", "i", "j", "k", "l", "m", "n", "o", "p",
     "q", "r", "s", "t", "u", "v", "w", "x", "y", "z",
     "A", "B", "C", "D", "E", "F", "G", "H", "I", "J", "K", "L", "M", "N", "O", "P",
     "Q", "R", "S", "T", "U", "V", "W", "X", "Y", "Z",
     "0", "1", "2", "3", "4", "5", "6", "7", "8", "9", "_"}

\* . of a JavaScript regular expression: any character but a line terminator
LineTerminators == {"\n", "\r"}

\* /download_(\w+).zip/.test(fileName): somewhere in the name, 'download_', one
\* or more word characters, any one character, 'zip'.
RegexTest(fileName) ==
    \E start \in 1..Len(fileName) : \E w \in 1..Len(fileName) :
        LET first == start + Len(DownloadPrefix)
            dot == first + w
        IN  /\ dot + 3 <= Len(fileName)
            /\ SubSeq(fileName, start, first - 1) = DownloadPrefix
            /\ \A k \in first..(dot - 1) : fileName[k] \in WordChars
            /\ fileName[dot] \notin LineTerminators
            /\ SubSeq(fileName, dot + 1, dot + 3) = <<"z", "i", "p">>

\* 3600 * 1000
HourMs == 3600 * 1000

\* The folder maps each file name in it to the age of its ctime, now - ctimeMs, in
\* ms; ages over an hour are all kept as AgeCap, the sweep telling no two apart.
AgeCap == HourMs + 1
Older(age, ms) == IF age + ms > AgeCap THEN AgeCap ELSE age + ms

\* The comparison with the hour left out of expire.
NotExpiredNoHour(now, ctimeMs) == ctimeMs >= now

\* fileStat.ctimeMs >= expire, with expire = Date.now() - 3600 * 1000 (lines 57, 68)
NotExpired(now, ctimeMs) == ctimeMs >= now - HourMs

\* cleanupCache (lines 56-74): the folder after the sweep.
cleanupCache(folder) ==
    LET now == AgeCap
        kept == { fileName \in DOMAIN folder :
                    \/ RegexTest(fileName) = FALSE
                    \/ NotExpired(now, now - folder[fileName]) }
    IN  [fileName \in kept |-> folder[fileName]]

\* Files that are in the folder when the server starts: an upload in progress
\* and the backup copy of an archive.
UploadTmp == <<"u", "p", "l", "o", "a", "d", ".", "t", "m", "p">>
ArchiveBackup ==
    <<"d", "o", "w", "n", "l", "o", "a", "d", "_", "a", ".", "z", "i", "p", ".", "b", "a", "k">>
OtherFiles == {UploadTmp, ArchiveBackup}

HashArchives == { ArchiveFileName(hash) : hash \in createFileHash }

NoStream == [state |-> "none", name |-> <<>>, writes |-> 0]

\* A write to the file of an open stream changes its ctime; the file of a
\* stream that the sweep has unlinked is no longer in the folder.
Touch(folder, name) ==
    IF name \in DOMAIN folder THEN [folder EXCEPT ![name] = 0] ELSE folder

\* Lines 187-189, 301-303: a request that passed its checks draws a hash and
\* opens download_<hash>.zip for writing, creating or truncating it.
createWriteStream ==
    /\ started < MaxRequests
    /\ stream.state # "open"
    /\ \E hash \in createFileHash :
          LET name == ArchiveFileName(hash)
          IN  /\ cache' = [n \in DOMAIN cache \cup {name} |->
                              IF n = name THEN 0 ELSE cache[n]]
              /\ stream' = [state |-> "open", name |-> name, writes |-> 0]
    /\ started' = started + 1
    /\ UNCHANGED <<sweepLog, serveVars, requestVars, progressVars>>

\* archive.file / archive.append piped to the output (lines 199, 216, 251, 410)
archiveWrite ==
    /\ stream.state = "open"
    /\ stream.writes < MaxWrites
    /\ cache' = Touch(cache, stream.name)
    /\ stream' = [stream EXCEPT !.writes = @ + 1]
    /\ UNCHANGED <<started, sweepLog, serveVars, requestVars, progressVars>>

\* A lookup in the build loop throws or the PDF renderer fails: the handler ends,
\* the file stays as it is.
buildFails ==
    /\ stream.state = "open"
    /\ stream' = [stream EXCEPT !.state = "failed"]
    /\ UNCHANGED <<cache, started, sweepLog, serveVars, requestVars, progressVars>>

\* archive.finalize() and the output's 'close' (lines 258-261, 412-415)
outputClose ==
    /\ stream.state = "open"
    /\ cache' = Touch(cache, stream.name)
    /\ stream' = [stream EXCEPT !.state = "closed"]
    /\ UNCHANGED <<started, sweepLog, serveVars, requestVars, progressVars>>

Sweep(by) ==
    /\ cache' = cleanupCache(cache)
    /\ sweepLog' = [by |-> by, flip |-> 1 - sweepLog.flip]
    /\ UNCHANGED <<stream, started, serveVars, requestVars, progressVars>>

\* setInterval(this.cleanupCache, config.timeToLiveCacheValue * 60) (line 52).
\* The phase of the timer against the other events is open, so a firing may come
\* at any instant.
timerFires == Sweep("timer")

\* DELETE /download/cache (lines 473-478)
deleteCache == Sweep("admin")

\* An hour passes.
HourPasses ==
    /\ cache' = [n \in DOMAIN cache |-> Older(cache[n], HourMs)]
    /\ UNCHANGED <<stream, started, sweepLog, serveVars, requestVars, progressVars>>

\* At the start the other files are new or a millisecond old, and an archive of
\* an earlier run may be there.
CacheInit ==
    /\ \E age \in {0, 1} : \E old \in SUBSET HashArchives :
          cache = [n \in OtherFiles \cup old |-> age]
    /\ stream = NoStream /\ started = 0
    /\ sweepLog = [by |-> "none", flip |-> 0]
    /\ response = <<>>
    /\ pc = "done" /\ req = <<>> /\ result = <<>>
    /\ progress = {} /\ calls = <<>> /\ nextId = 0

CacheNext ==
    \/ createWriteStream
    \/ archiveWrite
    \/ buildFails
    \/ outputClose
    \/ timerFires
    \/ deleteCache
    \/ HourPasses

CacheSpec == CacheInit /\ [][CacheNext]_vars

\* The timer keeps firing and time keeps passing.
FairCacheSpec == CacheSpec /\ WF_vars(timerFires) /\ WF_vars(HourPasses)

(***************************************************************************)
(* Properties of the cache folder                                          *)
(***************************************************************************)
\* A name of the form download_<id>.zip, <id> one or more word characters.
IsDownloadArchive(name) ==
    LET n == Len(name)
    IN  /\ n > Len(DownloadPrefix) + Len(ZipSuffix)
        /\ SubSeq(name, 1, Len(DownloadPrefix)) = DownloadPrefix
        /\ SubSeq(name, n - Len(ZipSuffix) + 1, n) = ZipSuffix
        /\ \A k \in (Len(DownloadPrefix) + 1)..(n - Len(ZipSuffix)) : name[k] \in WordChars

\* C3: one run of cleanupCache, by the timer or by DELETE /download/cache,
\* deletes exactly the files named download_<id>.zip whose ctime is more than an
\* hour old, and leaves every other file of the folder unchanged.
C3_SweepDeletesExactlyExpiredArchives ==
    [][ sweepLog' # sweepLog =>
          /\ DOMAIN cache' =
                DOMAIN cache \ { n \in DOMAIN cache : IsDownloadArchive(n) /\ cache[n] > HourMs }
          /\ \A n \in DOMAIN cache' : cache'[n] = cache[n] ]_vars

HexChars == { HexDigits[i] : i \in 1..16 }

\* download_<32 hex characters>.zip
IsHashArchive(name) ==
    /\ Len(name) = Len(DownloadPrefix) + 32 + Len(ZipSuffix)
    /\ SubSeq(name, 1, Len(DownloadPrefix)) = DownloadPrefix
    /\ SubSeq(name, Len(name) - Len(ZipSuffix) + 1, Len(name)) = ZipSuffix
    /\ \A k \in (Len(DownloadPrefix) + 1)..(Len(name) - Len(ZipSuffix)) : name[k] \in HexChars

RequestFileNamed == stream.state # "none" => IsHashArchive(stream.name) /\ RegexTest(stream.name)

\* C8: every file a download request creates, whether the request then succeeds
\* or fails, is named download_<32 hex characters>.zip and matched by the sweep's
\* pattern; no such file is deleted before its ctime is more than an hour old;
\* and, the timer firing on, every such file in the folder is eventually deleted.
C8_RequestFilesExpire ==
    /\ []RequestFileNamed
    /\ [][ \A n \in HashArchives :
              (n \in DOMAIN cache /\ n \notin DOMAIN cache') => cache[n] > HourMs ]_vars
    /\ \A n \in HashArchives : (n \in DOMAIN cache) ~> (n \notin DOMAIN cache)

\* The file of a request that failed after a write was removed by the timer's sweep.
C8_Witness ==
    /\ stream.state = "failed" /\ stream.writes > 0
    /\ stream.name \notin DOMAIN cache
    /\ sweepLog.by = "timer"

(***************************************************************************)
(* PUT /progress                                                           *)
(***************************************************************************)
\* Units by _id: their course and whether their deadline is in the past.
ProgressUnits ==
    [ n1 |-> [course |-> "c1", pastDeadline |-> FALSE],
      n2 |-> [course |-> "c1", pastDeadline |-> FALSE],
      nClosed |-> [course |-> "c1", pastDeadline |-> TRUE] ]

ProgressUsers == {"uStudent", "uOther"}

\* course.checkPrivileges(currentUser).userCanViewCourse
userCanViewCourse(course, user) == user = "uStudent"

\* Request bodies: the unit and the progress data.
Bodies == [unit : DOMAIN ProgressUnits, done : BOOLEAN]

Calls == 1..MaxCalls

IdleCall == [pc |-> "idle", user |-> "", unit |-> "", done |-> FALSE, found |-> 0]

\* checkDeadline (lines 16-20)
checkDeadline(unit) == ~unit.pastDeadline

\* Progress.findOne({user, unit}): the _id of the first matching document, 0 for none
ProgressFindOne(user, unit) ==
    LET ids == { d._id : d \in { e \in progress : e.user = user /\ e.unit = unit } }
    IN  IF ids = {} THEN 0 ELSE CHOOSE i \in ids : \A j \in ids : i <= j

\* updateProgress up to the lookup of the progress (lines 116-124)
updateProgressBegin(c, user, data) ==
    /\ calls[c].pc = "idle"
    /\ LET unit == ProgressUnits[data.unit]
       IN  calls' = [calls EXCEPT ![c] =
              IF ~userCanViewCourse(unit.course, user)
              THEN [IdleCall EXCEPT !.pc = "ForbiddenError"]
              ELSE IF ~checkDeadline(unit)
              THEN [IdleCall EXCEPT !.pc = "BadRequestError"]
              ELSE [pc |-> "checked", user |-> user, unit |-> data.unit,
                    done |-> data.done, found |-> 0]]
    /\ UNCHANGED <<progress, nextId, serveVars, requestVars, cacheVars>>

\* await Progress.findOne({user: currentUser, unit}) (line 126)
updateProgressFindOne(c) ==
    /\ calls[c].pc = "checked"
    /\ calls' = [calls EXCEPT ![c].pc = "found",
                              ![c].found = ProgressFindOne(calls[c].user, calls[c].unit)]
    /\ UNCHANGED <<progress, nextId, serveVars, requestVars, cacheVars>>

\* Progress.create(data), or progress.set(data) and progress.save() (lines 127-134)
updateProgressWrite(c) ==
    /\ calls[c].pc = "found"
    /\ IF calls[c].found = 0
       THEN /\ progress' = progress \cup
                  {[_id |-> nextId, user |-> calls[c].user, unit |-> calls[c].unit,
                    done |-> calls[c].done]}
            /\ nextId' = nextId + 1
       ELSE /\ progress' =
                  { IF d._id = calls[c].found THEN [d EXCEPT !.done = calls[c].done] ELSE d :
                      d \in progress }
            /\ nextId' = nextId
    /\ calls' = [calls EXCEPT ![c].pc = "done"]
    /\ UNCHANGED <<serveVars, requestVars, cacheVars>>

ProgressInit ==
    /\ progress = {} /\ calls = [c \in Calls |-> IdleCall] /\ nextId = 1
    /\ response = <<>>
    /\ pc = "done" /\ req = <<>> /\ result = <<>>
    /\ cache = <<>> /\ stream = <<>> /\ started = 0 /\ sweepLog = <<>>

ProgressNext ==
    \E c \in Calls :
        \/ \E user \in ProgressUsers, data \in Bodies : updateProgressBegin(c, user, data)
        \/ updateProgressFindOne(c)
        \/ updateProgressWrite(c)

ProgressSpec == ProgressInit /\ [][ProgressNext]_vars

\* C4: after any successful updateProgress calls by a user for a unit, their
\* steps interleaved or not, the collection holds exactly one document for that
\* user and unit, and it holds what one of the calls set.
C4_OneProgressPerUserAndUnit ==
    \A c \in Calls :
        calls[c].pc = "done" =>
            LET docs == { d \in progress : d.user = calls[c].user /\ d.unit = calls[c].unit }
            IN  /\ Cardinality(docs) = 1
                /\ \A d \in docs :
                      \E b \in Calls :
                          /\ calls[b].pc \in {"found", "done"}
                          /\ calls[b].user = d.user /\ calls[b].unit = d.unit
                          /\ calls[b].done = d.done

ServeInit ==
    /\ response \in {PendingResponse(id) : id \in Ids}
    /\ pc = "done" /\ req = <<>> /\ result = <<>>
    /\ cache = <<>> /\ stream = <<>> /\ started = 0 /\ sweepLog = <<>>
    /\ progress = {} /\ calls = <<>> /\ nextId = 0

ServeNext == \E id \in Ids : getArchivedFile(id)

ServeSpec == ServeInit /\ [][ServeNext]_vars

\* The cache folder, segment by segment: /app/tmp
CacheFolderPath == <<<<"a", "p", "p">>, <<"t", "m", "p">>>>
DirectChildOfCache(p) == Len(p) = 3 /\ p[1] = CacheFolderPath[1] /\ p[2] = CacheFolderPath[2]

\* C1: getArchivedFile sends a file only when the joined, normalised path of
\* 'download_' + id + '.zip' has the cache folder as its direct parent; for every
\* other id it throws ForbiddenError before the existence check and sends nothing,
\* so no file outside the cache folder is ever sent.
C1_ServesOnlyCacheChildren ==
    response.status # "pending" =>
        /\ \A p \in response.sent : DirectChildOfCache(p) /\ p \in DiskFiles
        /\ response.status = "download" <=> response.sent # {}
        /\ ~DirectChildOfCache(response.filePath) =>
               /\ response.status = "ForbiddenError"
               /\ ~response.existsChecked
               /\ response.sent = {}
        /\ DirectChildOfCache(response.filePath) => response.status # "ForbiddenError"

\* An id with '/../' that points at an existing file outside the cache folder
\* was refused.
C1_Witness ==
    /\ response.status = "ForbiddenError"
    /\ response.filePath \in DiskFiles
    /\ ~(Len(response.filePath) >= 2 /\ SubSeq(response.filePath, 1, 2) = CacheFolderPath)
    /\ \E i \in 1..Len(response.id) : response.id[i] = "/"

====
